---- MODULE Spec2Model ----
(***************************************************************************)
(* NeuroMesh reference validator (src/validator/validator.py) and          *)
(* reference miner (src/miner/miner.py).                                   *)
(*                                                                         *)
(* run_validator is one invocation that blocks on the network once per     *)
(* miner; the model cuts it at those blocking points.  do_POST is one      *)
(* handler invocation per request.                                         *)
(*                                                                         *)
(* Numbers: scores are float(len(output)), small non-negative integers.    *)
(* A weight is the quotient of two of them and is kept as the exact        *)
(* fraction [num, den].                                                    *)
(***************************************************************************)
EXTENDS Integers, Sequences, FiniteSets, TLC

VARIABLES miners, query, pc, i, net, response, scores, weights, report,
          sent, err, served

vars == <<miners, query, pc, i, net, response, scores, weights, report,
          sent, err, served>>

valVars == <<miners, query, pc, i, net, response, scores, weights, report,
             sent, err>>

(* ------------------------------ bounds -------------------------------- *)

\* longest --miners list of a round
MaxMiners == 3

\* most requests one miner process serves in a behaviour
MaxRequests == 2

(* ------------------------- JSON values, bodies ------------------------ *)

\* A value stored under a key of a JSON object.
LStr(s) == [t |-> "str", s |-> s, n |-> 0]
LNum(n) == [t |-> "num", s |-> "", n |-> n]
LList(n) == [t |-> "list", s |-> "", n |-> n]
LNull == [t |-> "null", s |-> "", n |-> 0]

\* A top-level JSON value.  An object carries the keys it has.
JObj(keys, input, output) ==
    [t |-> "obj", keys |-> keys, input |-> input, output |-> output]
JList == [t |-> "list", keys |-> {}, input |-> LNull, output |-> LNull]
JNum == [t |-> "num", keys |-> {}, input |-> LNull, output |-> LNull]
JString == [t |-> "str", keys |-> {}, input |-> LNull, output |-> LNull]

\* The bytes of a message body: JSON text, text that is no JSON, or bytes
\* that are no UTF-8.
Dumps(v) == [kind |-> "json", val |-> v]
NotJson == [kind |-> "notjson", val |-> JNum]
NotUtf8 == [kind |-> "notutf8", val |-> JNum]

\* body.decode("utf-8") followed by json.loads: the value, or the exception
Loads(body) ==
    CASE body.kind = "notutf8" -> [exc |-> "UnicodeDecodeError", val |-> JNum]
      [] body.kind = "notjson" -> [exc |-> "JSONDecodeError", val |-> JNum]
      [] OTHER -> [exc |-> "none", val |-> body.val]

\* dict.get(key, default); only a dict has .get
HasGet(v) == v.t = "obj"
Get(v, key, default) ==
    IF key \in v.keys
    THEN (IF key = "input" THEN v.input ELSE v.output)
    ELSE default

Digit(d) == CASE d = 0 -> "0" [] d = 1 -> "1" [] d = 2 -> "2" [] d = 3 -> "3"
              [] d = 4 -> "4" [] d = 5 -> "5" [] d = 6 -> "6" [] d = 7 -> "7"
              [] d = 8 -> "8" [] OTHER -> "9"

RECURSIVE DecStr(_)
DecStr(n) == IF n < 10 THEN Digit(n) ELSE DecStr(n \div 10) \o Digit(n % 10)

RECURSIVE NoneList(_)
NoneList(n) == IF n = 0 THEN "" ELSE
               IF n = 1 THEN "None" ELSE "None, " \o NoneList(n - 1)

\* what an f-string makes of a value: str(x)
PyStr(x) ==
    CASE x.t = "str" -> x.s
      [] x.t = "num" -> DecStr(x.n)
      [] x.t = "list" -> "[" \o NoneList(x.n) \o "]"
      [] OTHER -> "None"

\* len(x): defined on strings and lists, TypeError otherwise
HasLen(x) == x.t \in {"str", "list"}
PyLen(x) == IF x.t = "str" THEN Len(x.s) ELSE x.n

(* ------------------------------- miner -------------------------------- *)

Greeting == "Hello from NeuroMesh miner! You sent: "

NoReply == [sent |-> FALSE, status |-> 0, body |-> NotJson]
Reply(status, body) == [sent |-> TRUE, status |-> status, body |-> body]

\* the 400 branch of do_POST: status 400, body b"Invalid JSON"
BadRequest == Reply(400, NotJson)

\* faulty variant of OkReply: the input echoed without the greeting
OkReplyBare(request) ==
    Reply(200, Dumps(JObj({"output"}, LNull,
                          LStr(PyStr(Get(request, "input", LNull))))))
\* the 200 branch of do_POST: the greeting followed by the input
OkReply(request) ==
    Reply(200, Dumps(JObj({"output"}, LNull,
                          LStr(Greeting \o PyStr(Get(request, "input", LNull))))))

\* InferenceHandler.do_POST on one request: the reply written to the socket,
\* NoReply when an exception leaves the handler before send_response.
\* clen is the Content-Length header: "exact", "missing" or "malformed".
DoPOST(req) ==
    IF req.clen = "malformed" THEN NoReply          \* int() raises ValueError
    ELSE LET body == IF req.clen = "missing" THEN NotJson  \* reads 0 bytes
                     ELSE req.body
             r == Loads(body)
         IN  IF r.exc = "JSONDecodeError" THEN BadRequest
             ELSE IF r.exc # "none" THEN NoReply    \* UnicodeDecodeError
             ELSE IF ~HasGet(r.val) THEN NoReply    \* AttributeError
             ELSE OkReply(r.val)

Inputs == {LStr("hello"), LStr(""), LStr("2+2"), LNum(42), LNull, LList(2)}

RequestBodies ==
    {Dumps(JObj({"input"}, x, LNull)) : x \in Inputs}
    \cup {Dumps(JObj({}, LNull, LNull)), Dumps(JList), Dumps(JNum),
          Dumps(JString), NotJson, NotUtf8}

Requests ==
    [clen : {"exact"}, body : RequestBodies]
    \cup {[clen |-> "missing", body |-> NotJson],
          [clen |-> "malformed", body |-> NotJson]}

\* the server handles one POST
HandlePost(req) ==
    /\ pc = "off"
    /\ Len(served) < MaxRequests
    /\ served' = Append(served, [req |-> req, reply |-> DoPOST(req)])
    /\ UNCHANGED valVars

(* ----------------------------- validator ------------------------------ *)

AddrA == <<"a", ":", "1">>
AddrB == <<"b", ":", "2">>
AddrC == <<"c", ":", "3">>
AddrNoPort == <<"d">>
AddrBadPort == <<"e", ":", "x">>

Addresses == {AddrA, AddrB, AddrC, AddrNoPort, AddrBadPort}

Queries == {"2+2"}

Digits == {"0", "1", "2", "3", "4", "5", "6", "7", "8", "9"}

\* miner_addr.split(":"): the number of parts
RECURSIVE CountSep(_)
CountSep(s) == IF s = <<>> THEN 0
               ELSE (IF Head(s) = ":" THEN 1 ELSE 0) + CountSep(Tail(s))

RECURSIVE AfterSep(_)
AfterSep(s) == IF s = <<>> THEN <<>>
               ELSE IF Head(s) = ":" THEN Tail(s) ELSE AfterSep(Tail(s))

\* int(port) succeeds
IsInt(p) == Len(p) > 0 /\ \A k \in 1..Len(p) : p[k] \in Digits

\* host, port = miner_addr.split(":") and int(port) both succeed
Parses(addr) == CountSep(addr) = 1 /\ IsInt(AfterSep(addr))

\* scores: a dict in insertion order, a sequence of [k, v]
Keys(d) == {d[j].k : j \in 1..Len(d)}
ScoreAt(d, key) == d[CHOOSE j \in 1..Len(d) : d[j].k = key].v
DictSet(d, key, val) ==
    IF key \in Keys(d)
    THEN [j \in 1..Len(d) |-> IF d[j].k = key THEN [k |-> key, v |-> val] ELSE d[j]]
    ELSE Append(d, [k |-> key, v |-> val])

\* data.get("output", "") of a reply whose body parsed to a dict
Output(reply) == Get(Loads(reply.body).val, "output", LStr(""))

\* the try block raises: no response (RemoteDisconnected), a body that does
\* not decode or parse, a JSON value without .get (AttributeError), an
\* output without len() (TypeError).  The status is never looked at.
Raises(reply) ==
    \/ ~reply.sent
    \/ Loads(reply.body).exc # "none"
    \/ ~HasGet(Loads(reply.body).val)
    \/ ~HasLen(Output(reply))

\* float(len(output))
ScoreOf(reply) == PyLen(Output(reply))

\* faulty variant of OnException: a failing miner is left out of the map
OnExceptionSkip(d, key) == d

\* scores[miner_addr] = 0.0 in the except branch
OnException(d, key) == DictSet(d, key, 0)

RECURSIVE Sum(_)
Sum(s) == IF s = <<>> THEN 0 ELSE Head(s) + Sum(Tail(s))

Values(d) == [j \in 1..Len(d) |-> d[j].v]

\* faulty variant of Total: divides by the number of miners
TotalCount(values) == IF Len(values) > 0 THEN Len(values) ELSE 1

\* total = values.sum() if values.sum() > 0 else 1.0
Total(values) == IF Sum(values) > 0 THEN Sum(values) ELSE 1

\* weights = values / total
Weights(values) ==
    [j \in 1..Len(values) |-> [num |-> values[j], den |-> Total(values)]]

\* zip(scores.keys(), weights)
Zip(d, w) == [j \in 1..Len(d) |-> [miner |-> d[j].k, weight |-> w[j]]]

\* json.dumps({"input": query}) with its Content-Length header
Payload(q) == [clen |-> "exact", body |-> Dumps(JObj({"input"}, LStr(q), LNull))]

\* what a miner may answer: the reference miner's reply to the payload, any
\* other reply, or a closed connection
Replies(q) ==
    {DoPOST(Payload(q)),
     Reply(200, Dumps(JObj({"output"}, LNull, LStr("4")))),
     Reply(200, Dumps(JObj({"output"}, LNull, LStr("four")))),
     Reply(500, Dumps(JObj({"output"}, LNull, LStr("four")))),
     Reply(200, Dumps(JObj({"output"}, LNull, LNull))),
     Reply(200, Dumps(JObj({}, LNull, LNull))),
     Reply(200, Dumps(JList)),
     Reply(400, NotJson),
     Reply(200, NotUtf8),
     NoReply}

\* the end of one loop iteration with the score map sc: the next iteration,
\* or after the last miner the normalisation and the report
EndIteration(sc) ==
    /\ scores' = sc
    /\ net' = "closed"
    /\ IF i = Len(miners)
       THEN /\ pc' = "done"
            /\ i' = i
            /\ weights' = Weights(Values(sc))
            /\ report' = Zip(sc, Weights(Values(sc)))
       ELSE /\ pc' = "loop"
            /\ i' = i + 1
            /\ UNCHANGED <<weights, report>>

\* run_validator is called; with no miner the loop body never runs
Invoke ==
    /\ pc = "idle"
    /\ IF miners = <<>>
       THEN /\ pc' = "done"
            /\ weights' = Weights(Values(scores))
            /\ report' = Zip(scores, Weights(Values(scores)))
       ELSE /\ pc' = "loop"
            /\ UNCHANGED <<weights, report>>
    /\ UNCHANGED <<miners, query, i, net, response, scores, sent, err, served>>

\* the loop body for miner j up to getresponse(): the address is split, the
\* connection made and the request sent
Connect(j) ==
    /\ pc = "loop"
    /\ j = i
    /\ IF ~Parses(miners[j])
       THEN /\ pc' = "raised"
            /\ err' = "ValueError"
            /\ UNCHANGED <<i, net, response, scores, weights, report, sent>>
       ELSE /\ sent' = Append(sent, j)
            /\ UNCHANGED <<err, response>>
            /\ \E outcome \in {"refused", "responding", "silent"} :
                 IF outcome = "refused"
                 THEN EndIteration(OnException(scores, miners[j]))
                 ELSE /\ pc' = "waiting"
                      /\ net' = outcome
                      /\ UNCHANGED <<i, scores, weights, report>>
    /\ UNCHANGED <<miners, query, served>>

\* getresponse() returns or raises; the rest of the loop body runs
Respond ==
    /\ pc = "waiting"
    /\ net = "responding"
    /\ \E reply \in Replies(query) :
         /\ response' = reply
         /\ EndIteration(IF Raises(reply)
                         THEN OnException(scores, miners[i])
                         ELSE DictSet(scores, miners[i], ScoreOf(reply)))
    /\ UNCHANGED <<miners, query, sent, err, served>>

RECURSIVE SeqsUpTo(_, _)
SeqsUpTo(S, n) ==
    IF n = 0 THEN {<<>>}
    ELSE LET shorter == SeqsUpTo(S, n - 1)
         IN  shorter \cup {Append(s, a) : s \in {t \in shorter : Len(t) = n - 1}, a \in S}

InitValidator ==
    /\ miners \in SeqsUpTo(Addresses, MaxMiners)
    /\ query \in Queries
    /\ pc = "idle"
    /\ i = 1
    /\ net = "closed"
    /\ response = NoReply
    /\ scores = <<>>
    /\ weights = <<>>
    /\ report = <<>>
    /\ sent = <<>>
    /\ err = "none"
    /\ served = <<>>

Init == InitValidator

Next ==
    \/ Invoke
    \/ \E j \in 1..Len(miners) : Connect(j)
    \/ Respond

Spec == Init /\ [][Next]_vars

\* the miner process alone, serving arbitrary clients
MinerInit ==
    /\ miners = <<>>
    /\ query \in Queries
    /\ pc = "off"
    /\ i = 1
    /\ net = "closed"
    /\ response = NoReply
    /\ scores = <<>>
    /\ weights = <<>>
    /\ report = <<>>
    /\ sent = <<>>
    /\ err = "none"
    /\ served = <<>>

MinerNext == \E req \in Requests : HandlePost(req)

MinerSpec == MinerInit /\ [][MinerNext]_vars

(* ------------------------------ properties ---------------------------- *)

Range(s) == {s[j] : j \in 1..Len(s)}
Distinct(s) == Cardinality(Range(s)) = Len(s)
Nums(w) == [j \in 1..Len(w) |-> w[j].num]

\* C1 as claimed: when the round reaches the normalisation, the score map
\* has exactly one entry per requested address: its keys are the requested
\* addresses and its size is the number of miners queried, the length of
\* the miner list and the length of the weight vector.
C1_OneEntryPerQueriedMiner ==
    pc = "done" =>
        /\ Keys(scores) = Range(miners)
        /\ Len(sent) = Len(miners)
        /\ Len(scores) = Len(sent)
        /\ Len(weights) = Len(scores)

\* C1 amended: when the round reaches the normalisation, every miner of the
\* list was queried, the score map has exactly one entry per distinct
\* requested address (its keys are the requested addresses, none twice) and
\* the weight vector is as long as the score map; the size is the number of
\* miners queried when no address is repeated in the list.
C1_OneEntryPerDistinctAddress ==
    pc = "done" =>
        /\ Keys(scores) = Range(miners)
        /\ Len(sent) = Len(miners)
        /\ Len(scores) = Cardinality(Range(miners))
        /\ Len(weights) = Len(scores)
        /\ Distinct(miners) => Len(scores) = Len(sent)

\* a finished round over a list that repeats an address, with a miner that
\* scored and a miner that failed
C1_Witness ==
    /\ pc = "done"
    /\ Len(miners) = MaxMiners
    /\ ~Distinct(miners)
    /\ \E j \in 1..Len(scores) : scores[j].v = 0
    /\ \E j \in 1..Len(scores) : scores[j].v > 0

\* C2: when all N >= 1 queried miners score 0.0, each weight is 1/N.
C2_UniformFallback ==
    (/\ pc = "done"
     /\ Len(scores) >= 1
     /\ \A j \in 1..Len(scores) : scores[j].v = 0)
    => \A j \in 1..Len(weights) :
           weights[j].num * Len(scores) = weights[j].den

\* C3: when the sum S of the scores is positive, every miner of the score
\* map is reported once, the weight reported next to miner m is
\* score(m) / S for that same m, it lies in [0, 1], and the weights sum to 1.
C3_WeightIsShareOfTotal ==
    (pc = "done" /\ Sum(Values(scores)) > 0) =>
        /\ Len(report) = Len(scores)
        /\ \A j \in 1..Len(report) :
             LET m == report[j].miner
                 w == report[j].weight
             IN  /\ m = scores[j].k
                 /\ w.den > 0
                 /\ w.num * Sum(Values(scores)) = ScoreAt(scores, m) * w.den
                 /\ 0 <= w.num /\ w.num <= w.den
                 /\ w.den = report[1].weight.den
        /\ Sum(Nums(weights)) = report[1].weight.den
        /\ \A j \in 1..Len(report) : report[j].weight = weights[j]

\* the round of the scenario: scores {A: 1, B: 4, C: 0} reported as
\* {A: 1/5, B: 4/5, C: 0/5}
C3_Witness ==
    /\ pc = "done"
    /\ miners = <<AddrA, AddrB, AddrC>>
    /\ Values(scores) = <<1, 4, 0>>
    /\ report = <<[miner |-> AddrA, weight |-> [num |-> 1, den |-> 5]],
                  [miner |-> AddrB, weight |-> [num |-> 4, den |-> 5]],
                  [miner |-> AddrC, weight |-> [num |-> 0, den |-> 5]]>>

\* C4: every error of one miner is contained: no error leaves run_validator,
\* and a round that ends has queried every miner of the list.
C4_MinerErrorsContained ==
    /\ err = "none"
    /\ pc # "raised"
    /\ pc = "done" => Len(sent) = Len(miners)

\* C5: a round always terminates: a round that has not ended (here even
\* counting an ending by an error as an end) can always take a step; a
\* miner that never answers is timed out.
C5_RoundAlwaysTerminates ==
    pc \in {"done", "raised"} \/ ENABLED Next

\* C6: the queries are not serialized: while the request to one miner is
\* pending, the request to any later miner of the list can be issued.
C6_QueriesNotSerialized ==
    \A j \in 1..Len(miners) :
        (pc = "waiting" /\ j > i /\ Parses(miners[j])) => ENABLED Connect(j)

\* C7: a response with a non-2xx status scores exactly 0.0, whatever its
\* body: the step that receives such a response records 0 for that miner.
C7_Non2xxScoresZero ==
    [][(/\ pc = "waiting"
        /\ pc' # "waiting"
        /\ response'.sent
        /\ response'.status \notin 200..299)
       => ScoreAt(scores', miners[i]) = 0]_vars

\* C8: a round ends with an error exactly when the miner list is empty.
C8_FailsExactlyOnEmptyList ==
    pc \in {"done", "raised"} => (err # "none" <=> miners = <<>>)

\* C9: every POST whose body is a JSON object {"input": x}, x a string, is
\* answered with status 200 and the JSON object whose output is the greeting
\* followed by x, at whatever place of the sequence of requests it comes.
C9_GreetingEchoesInput ==
    \A k \in 1..Len(served) :
        LET req == served[k].req
        IN  (/\ req.clen = "exact"
             /\ req.body.kind = "json"
             /\ req.body.val.t = "obj"
             /\ "input" \in req.body.val.keys
             /\ req.body.val.input.t = "str")
            => served[k].reply =
                   [sent |-> TRUE, status |-> 200,
                    body |-> [kind |-> "json",
                              val |-> [t |-> "obj", keys |-> {"output"},
                                       input |-> LNull,
                                       output |-> LStr(Greeting \o req.body.val.input.s)]]]

\* {"input": "hello"} served after a different request
C9_Witness ==
    /\ Len(served) = 2
    /\ served[1].req # served[2].req
    /\ served[2].req = [clen |-> "exact",
                        body |-> Dumps(JObj({"input"}, LStr("hello"), LNull))]
    /\ served[2].reply.status = 200
    /\ Len(served[2].reply.body.val.output.s) = Len(Greeting) + 5

\* C10: every POST is answered with one response of status 200 or 400, and
\* a body that is no JSON gets 400.
C10_EveryPostAnswered ==
    \A k \in 1..Len(served) :
        /\ served[k].reply.sent
        /\ served[k].reply.status \in {200, 400}
        /\ (served[k].req.clen = "exact" /\ served[k].req.body.kind = "notjson")
               => served[k].reply.status = 400

====
